---- MODULE Spec2Model ----
(***************************************************************************)
(* The deep-equality comparator assertEquals and its runner runTest        *)
(* (src/unnamed/part_000), as a state machine.                             *)
(*                                                                         *)
(* A JavaScript value is a record [t, v]: the primitives undefined, null,  *)
(* NaN and the numbers, and references to the objects of a heap.  An       *)
(* object of the heap is an Array or a plain Object with its own           *)
(* enumerable properties in enumeration order.  Arrays are dense (their    *)
(* keys are "0".."n-1"); plain objects have no integer-like keys and no    *)
(* inherited enumerable properties.                                        *)
(*                                                                         *)
(* One top-level call of runTest is run as: the entry of assertEquals      *)
(* (lines 24-81), then one step per iteration of the loop of line 84, a    *)
(* recursive call running the callee's entry, and one step per return.     *)
(***************************************************************************)
EXTENDS Naturals, Sequences, FiniteSets, TLC

(* ------------------------------ bounds -------------------------------- *)

\* Number of objects of the heap.
NumObjs == 4

\* Largest number of own properties of all the objects of the heap together.
MaxSlots == 3

(* ------------------------------ values -------------------------------- *)

UNDEF == [t |-> "undefined", v |-> 0]
NULL == [t |-> "null", v |-> 0]
NAN == [t |-> "nan", v |-> 0]
Num(n) == [t |-> "number", v |-> n]
Ref(i) == [t |-> "ref", v |-> i]

Refs == 1..NumObjs

\* The primitives of the model: undefined, null, NaN and one number.
Prims == {UNDEF, NULL, NAN, Num(1)}

Values == Prims \cup {Ref(i) : i \in Refs}

\* The keys a plain object may own.
ObjKeys == {"a", "b", "length"}

\* The key of an array's i-th element (1-based position i, index i-1).
IdxKey(i) == <<"0", "1", "2", "3", "4">>[i]

VARIABLES
    heap,       \* the objects the test cases are built from: Refs -> object
    testCases,  \* the test cases of runAll
    key,        \* the implicit global `key` of the loops of lines 72 and 77
    test,       \* the test case runTest was last called with
    stack,      \* the active assertEquals calls that are in the loop of line 84
    map,        \* the Map of the current top-level call, in insertion order
    result,     \* what runTest last returned
    calls,      \* assertEquals calls of this top-level call that passed the guard
    steps,      \* steps taken by this top-level call
    last,       \* the last assertEquals call: its operands, the map before, how it went
    first       \* the first completed test case of the run and its result

vars == <<heap, testCases, key, test, stack, map, result, calls, steps, last, first>>

(* ---------------------------- JS primitives --------------------------- *)

\* typeof x
TypeOf(x) ==
    CASE x.t = "undefined" -> "undefined"
      [] x.t \in {"null", "ref"} -> "object"
      [] OTHER -> "number"

\* x === y: NaN is not equal to itself.
StrictEq(x, y) == x = y /\ x.t # "nan"

\* Array.isArray(x)
IsArray(x) == x.t = "ref" /\ heap[x.v].kind = "Array"

\* Object.keys(x) for an object x, also the order of `for (k in x)`.
OwnKeys(x) == [i \in 1..Len(heap[x.v].props) |-> heap[x.v].props[i].k]

HasOwn(x, k) == \E i \in 1..Len(heap[x.v].props) : heap[x.v].props[i].k = k

\* x[k] for an object x: an own property, an array's length, or undefined.
Get(x, k) ==
    LET o == heap[x.v] IN
    IF HasOwn(x, k)
    THEN o.props[CHOOSE i \in 1..Len(o.props) : o.props[i].k = k].v
    ELSE IF o.kind = "Array" /\ k = "length" THEN Num(Len(o.props))
    ELSE UNDEF

\* x?.length
LengthOf(x) == IF x.t = "ref" THEN Get(x, "length") ELSE UNDEF

\* objType without its case for null.
objTypeNoNull(x) == IF IsArray(x) THEN "Array" ELSE "Object"

\* Line 8.
objType(x) == IF IsArray(x) THEN "Array" ELSE IF x = NULL THEN "Null" ELSE "Object"

\* keys.join(".")
RECURSIVE JoinKeys(_)
JoinKeys(p) ==
    IF p = <<>> THEN ""
    ELSE IF Len(p) = 1 THEN p[1]
    ELSE p[1] \o "." \o JoinKeys(Tail(p))

\* `${x}`: String(x). An array joins its elements with ",", null and undefined
\* elements as "" and an array already being joined as "".
RECURSIVE ToStr(_, _)
RECURSIVE JoinFrom(_, _, _)
JoinFrom(x, i, seen) ==
    LET o == heap[x.v]
        el == o.props[i].v
        s == IF el \in {UNDEF, NULL} THEN "" ELSE ToStr(el, seen)
    IN IF i > Len(o.props) THEN ""
       ELSE IF i = Len(o.props) THEN s
       ELSE s \o "," \o JoinFrom(x, i + 1, seen)
ToStr(x, seen) ==
    CASE x.t = "undefined" -> "undefined"
      [] x.t = "null" -> "null"
      [] x.t = "nan" -> "NaN"
      [] x.t = "number" -> <<"0", "1", "2", "3", "4">>[x.v + 1]
      [] OTHER ->
          IF ~IsArray(x) THEN "[object Object]"
          ELSE IF x \in seen THEN ""
          ELSE JoinFrom(x, 1, seen \cup {x})

String(x) == ToStr(x, {})

(* ------------------------------ the Map ------------------------------- *)

\* new Map(): no entries.
NewMap == <<>>

\* map.has(x): keys are compared by SameValueZero, under which NaN is NaN.
MapHas(m, x) == \E i \in 1..Len(m) : m[i].k = x

\* map.set(x, y): a new key is appended, an old key keeps its place.
MapSet(m, x, y) ==
    IF MapHas(m, x)
    THEN [i \in 1..Len(m) |-> IF m[i].k = x THEN [k |-> x, v |-> y] ELSE m[i]]
    ELSE Append(m, [k |-> x, v |-> y])

MapKeys(m) == {m[i].k : i \in 1..Len(m)}
MapVals(m) == {m[i].v : i \in 1..Len(m)}

(* ------------------------------ results ------------------------------- *)

\* What runTest returns: the pass confirmation, or the message of the error
\* thrown at `line`, with the dotted key path and the two texts it holds.
Msg(kind, line, path, exp, act) ==
    [kind |-> kind, line |-> line, path |-> path, exp |-> exp, act |-> act]

Pass == Msg("Pass", 0, "", "", "")
NoResult == Msg("none", 0, "", "", "")

\* The engine's "Maximum call stack size exceeded", thrown by a call made at
\* depth StackLimit and caught by runTest like any other error.
StackLimit == NumObjs + 2
StackOverflow == Msg("RangeError", 0, "", "", "")

FailureKinds ==
    {"TypeMismatch", "ShapeMismatch", "ValueMismatch", "MissingValue",
     "LengthMismatch", "MissingKey", "UnexpectedKey"}

(* --------------------- assertEquals, lines 24 to 81 ------------------- *)

\* The outcomes of the entry of a call: it returns the pass confirmation,
\* throws, or goes on to the loop of line 84.
Returns(m, gk, how) == [ctl |-> "return", res |-> Pass, map |-> m, key |-> gk, how |-> how]
Throws(msg, m, gk) == [ctl |-> "throw", res |-> msg, map |-> m, key |-> gk, how |-> "entered"]
Loops(m, gk) == [ctl |-> "loop", res |-> NoResult, map |-> m, key |-> gk, how |-> "entered"]

\* Line 25: the identity short-circuit.
Identical(expected, actual) == StrictEq(expected, actual)

\* The guard left out: no call is answered by the Map.
NeverGuarded(m, expected, actual) == FALSE

\* The guard looking up the expected operand only.
GuardedOnExpected(m, expected, actual) == MapHas(m, expected)

\* Line 31: the cycle guard.
Guarded(m, expected, actual) == MapHas(m, expected) \/ MapHas(m, actual)

\* Lines 72-74 (scanned = expected, other = actual) and 77-79 (the reverse):
\* the position of the first key of `scanned` whose value in `other` is
\* undefined, 0 when there is none.
FirstUndefined(scanned, other) ==
    LET ks == OwnKeys(scanned)
        hits == {i \in 1..Len(ks) : StrictEq(Get(other, ks[i]), UNDEF)}
    IN IF hits = {} THEN 0 ELSE CHOOSE i \in hits : \A j \in hits : i <= j

\* The global `key` after a loop of line 72 or 77 that threw at position i
\* (i > 0) or ran to its end (i = 0).
KeyAfterScan(scanned, i, gk) ==
    LET ks == OwnKeys(scanned) IN
    IF i > 0 THEN ks[i] ELSE IF Len(ks) > 0 THEN ks[Len(ks)] ELSE gk

\* Lines 66-81: objects with different numbers of keys.
KeyCount(expected, actual, keyTrace, m, gk) ==
    LET expectedKeys == OwnKeys(expected)
        actualKeys == OwnKeys(actual)
        i == FirstUndefined(expected, actual)
        j == FirstUndefined(actual, expected)
    IN IF Len(expectedKeys) = Len(actualKeys) THEN Loops(m, gk)
       ELSE IF Len(expectedKeys) > Len(actualKeys)
       THEN IF i > 0
            THEN Throws(Msg("MissingKey", 73,
                            JoinKeys(Append(keyTrace, expectedKeys[i])), "", ""),
                        m, KeyAfterScan(expected, i, gk))
            ELSE Loops(m, KeyAfterScan(expected, i, gk))
       ELSE IF j > 0
            THEN Throws(Msg("UnexpectedKey", 78,
                            JoinKeys(Append(keyTrace, actualKeys[j])), "", ""),
                        m, KeyAfterScan(actual, j, gk))
            ELSE Loops(m, KeyAfterScan(actual, j, gk))

\* Lines 36-81, after the guard: the type, shape and length checks.
Checks(expected, actual, keyTrace, m, gk) ==
    IF TypeOf(expected) # TypeOf(actual)
    THEN Throws(Msg("TypeMismatch", 38, "", TypeOf(expected), TypeOf(actual)), m, gk)
    ELSE IF IsArray(expected) # IsArray(actual)
    THEN Throws(Msg("ShapeMismatch", 43, "", objType(expected), objType(actual)), m, gk)
    ELSE IF TypeOf(actual) # "object"
    THEN IF ~StrictEq(expected, actual)
         THEN Throws(Msg("ValueMismatch", 50, "", String(expected), String(actual)), m, gk)
         ELSE Returns(m, gk, "entered")
    ELSE IF (expected = NULL \/ actual = NULL) /\ ~StrictEq(expected, actual)
    THEN Throws(Msg("ShapeMismatch", 57, "", objType(expected), objType(actual)), m, gk)
    ELSE IF ~StrictEq(LengthOf(expected), LengthOf(actual))
    THEN Throws(Msg("LengthMismatch", 63, "",
                    String(LengthOf(expected)), String(LengthOf(actual))), m, gk)
    ELSE KeyCount(expected, actual, keyTrace, m, gk)

\* Lines 24-81 of a call assertEquals(message, expected, actual, keyTrace, m)
\* made with the global `key` holding gk.
Entry(expected, actual, keyTrace, m, gk) ==
    IF Identical(expected, actual) THEN Returns(m, gk, "identity")
    ELSE IF Guarded(m, expected, actual) THEN Returns(m, gk, "guard")
    ELSE Checks(expected, actual, keyTrace, MapSet(m, expected, actual), gk)

(* ------------------------- runTest and the loop ----------------------- *)

TestCase(e, a) == [expected |-> e, actual |-> a]
NoTest == TestCase(UNDEF, UNDEF)
NoKey == "(none)"
NoCall ==
    [expected |-> UNDEF, actual |-> UNDEF, keyTrace |-> <<>>, before |-> NewMap,
     how |-> "none"]
NoFirst == [set |-> FALSE, test |-> NoTest, out |-> NoResult]

\* A call in the loop of line 84: its operands, its keyTrace, and the
\* position in Object.keys(expected) of the key the loop is at.
Frame(e, a, kt) == [expected |-> e, actual |-> a, keyTrace |-> kt, idx |-> 1]

\* Line 23: the default of the parameter keyTrace.
DefaultKeyTrace == <<>>

\* One Map shared by every top-level call.
SharedMap(old) == old

\* Line 23: the default of the parameter map, evaluated at each call that
\* passes none; `old` is the Map the previous top-level call left behind.
DefaultMap(old) == NewMap

\* The recursive call passed the current key alone.
KeyOnlyTrace(keyTrace, k) == <<k>>

\* Line 88: the keyTrace passed to a recursive call.
ChildTrace(keyTrace, k) == Append(keyTrace, k)

Top == stack[Len(stack)]
TopKeys == OwnKeys(Top.expected)
InLoop == stack # <<>> /\ Top.idx <= Len(TopKeys)
TopKey == TopKeys[Top.idx]

\* The loop of the top call moves on to its next key.
Advance(st) == [st EXCEPT ![Len(st)].idx = @ + 1]

\* The call recorded for `last`.
CallOf(e, a, kt, m, r) ==
    [expected |-> e, actual |-> a, keyTrace |-> kt, before |-> m, how |-> r.how]

\* runTest returns res: the first return of a run is kept.
Finish(t, res) ==
    /\ result' = res
    /\ stack' = <<>>
    /\ first' = IF first.set THEN first ELSE [set |-> TRUE, test |-> t, out |-> res]

\* Lines 116-122: runTest({message, expected, actual}), up to the loop of
\* line 84 of the call it makes.
RunTest(tc) ==
    /\ stack = <<>>
    /\ LET m == DefaultMap(map)
           r == Entry(tc.expected, tc.actual, DefaultKeyTrace, m, key)
       IN /\ test' = tc
          /\ map' = r.map
          /\ key' = r.key
          /\ calls' = IF r.how = "entered" THEN 1 ELSE 0
          /\ steps' = 0
          /\ last' = CallOf(tc.expected, tc.actual, DefaultKeyTrace, m, r)
          /\ IF r.ctl = "loop"
             THEN /\ stack' = <<Frame(tc.expected, tc.actual, DefaultKeyTrace)>>
                  /\ result' = NoResult
                  /\ first' = first
             ELSE Finish(tc, r.res)
    /\ UNCHANGED <<heap, testCases>>

\* Lines 85-88: a value at the key is of type "object": the recursive call,
\* up to the loop of line 84 of the callee.
Descend ==
    /\ InLoop
    /\ LET ek == Get(Top.expected, TopKey)
           ak == Get(Top.actual, TopKey)
           kt == ChildTrace(Top.keyTrace, TopKey)
           r == Entry(ek, ak, kt, map, key)
       IN /\ TypeOf(ek) = "object" \/ TypeOf(ak) = "object"
          /\ steps' = steps + 1
          /\ IF Len(stack) >= StackLimit
             THEN /\ Finish(test, StackOverflow)
                  /\ UNCHANGED <<map, key, calls, last>>
             ELSE /\ map' = r.map
                  /\ key' = r.key
                  /\ calls' = IF r.how = "entered" THEN calls + 1 ELSE calls
                  /\ last' = CallOf(ek, ak, kt, map, r)
                  /\ CASE r.ctl = "loop" ->
                            /\ stack' = Append(stack, Frame(ek, ak, kt))
                            /\ UNCHANGED <<result, first>>
                       [] r.ctl = "return" ->
                            /\ stack' = Advance(stack)
                            /\ UNCHANGED <<result, first>>
                       [] OTHER -> Finish(test, r.res)
    /\ UNCHANGED <<heap, testCases, test>>

\* Lines 89-96: neither value at the key is of type "object".
CompareLeaf ==
    /\ InLoop
    /\ LET ek == Get(Top.expected, TopKey)
           ak == Get(Top.actual, TopKey)
           path == JoinKeys(Append(Top.keyTrace, TopKey))
       IN /\ TypeOf(ek) # "object" /\ TypeOf(ak) # "object"
          /\ steps' = steps + 1
          /\ IF StrictEq(ek, ak)
             THEN /\ stack' = Advance(stack)
                  /\ UNCHANGED <<result, first>>
             ELSE IF StrictEq(ak, UNDEF)
             THEN Finish(test, Msg("MissingValue", 92, path, "", ""))
             ELSE Finish(test, Msg("ValueMismatch", 94, path, String(ek), String(ak)))
    /\ UNCHANGED <<heap, testCases, test, map, key, calls, last>>

\* Line 103: the loop is over and the call returns the pass confirmation,
\* to the loop of its caller or to runTest.
Return ==
    /\ stack # <<>>
    /\ ~InLoop
    /\ steps' = steps + 1
    /\ IF Len(stack) = 1
       THEN Finish(test, Pass)
       ELSE /\ stack' = Advance(SubSeq(stack, 1, Len(stack) - 1))
            /\ UNCHANGED <<result, first>>
    /\ UNCHANGED <<heap, testCases, test, map, key, calls, last>>

(* ----------------------------- the inputs ----------------------------- *)

Max(x, y) == IF x >= y THEN x ELSE y
Min(x, y) == IF x <= y THEN x ELSE y

\* The sequences of n distinct keys among ks.
KeySeqs(n, ks) ==
    {s \in [1..n -> ks] : \A i, j \in 1..n : i # j => s[i] # s[j]}

\* The arrays, and the plain objects with keys among ks, that have exactly n
\* own properties with values among vals.
ShapesWith(n, ks, vals) ==
    {[kind |-> "Array", props |-> [i \in 1..n |-> [k |-> IdxKey(i), v |-> vs[i]]]] :
        vs \in [1..n -> vals]}
    \cup
    {[kind |-> "Object", props |-> [i \in 1..n |-> [k |-> sh[1][i], v |-> sh[2][i]]]] :
        sh \in KeySeqs(n, ks) \X [1..n -> vals]}

\* The object {}.
EmptyObject == [kind |-> "Object", props |-> <<>>]

\* The objects no test case uses: Ref(from) .. Ref(NumObjs), each {}.
Unused(from) == [j \in 1..(NumObjs + 1 - from) |-> EmptyObject]

\* The two objects of a test case, with at most t own properties together,
\* holding primitives and references to each other; no other object is used.
RECURSIVE PairsOf(_, _)
PairsOf(n, t) ==
    IF n = 0 THEN {<<>>}
    ELSE UNION {{Append(h, o) : h \in PairsOf(n - 1, t - k),
                                o \in ShapesWith(k, ObjKeys, Prims \cup {Ref(1), Ref(2)})} :
                   k \in 0..t}

\* The heaps of two such objects with at most t own properties together.
FlatHeaps(t) == {h \o Unused(3) : h \in PairsOf(2, t)}

\* The highest object an object refers to, 0 when it refers to none.
HighRef(o) ==
    LET rs == {o.props[i].v.v : i \in {j \in 1..Len(o.props) : o.props[j].v.t = "ref"}}
    IN IF rs = {} THEN 0 ELSE CHOOSE r \in rs : \A q \in rs : q <= r

\* Linked structures: every object has at most one own property (an array
\* element or the key "a"), holding a primitive or a reference. Objects are
\* numbered in the order of their first mention, Ref(1) and Ref(2) being the
\* operands of the test cases: object i, given that the objects up to `hi`
\* have been mentioned, refers to one of them or to the next one, and an
\* object that is never mentioned is not used.
RECURSIVE LinkedFrom(_, _)
LinkedFrom(i, hi) ==
    IF i > NumObjs THEN {<<>>}
    ELSE IF i > hi THEN {Unused(i)}
    ELSE LET vals == Prims \cup {Ref(j) : j \in 1..Min(hi + 1, NumObjs)}
             shapes == ShapesWith(0, {"a"}, vals) \cup ShapesWith(1, {"a"}, vals)
         IN UNION {{<<o>> \o rest : rest \in LinkedFrom(i + 1, Max(hi, HighRef(o)))} :
                      o \in shapes}

LinkedHeaps == LinkedFrom(1, 2)

EmptyHeap == Unused(1)

\* The test cases on two objects, and the test cases on primitives.
RootTests == {TestCase(Ref(1), Ref(2)), TestCase(Ref(2), Ref(1)), TestCase(Ref(1), Ref(1))}
PrimTests == {TestCase(e, a) : e, a \in Prims \cup {Ref(1)}}

(* -------------------------- the specifications ------------------------ *)

InitOn(h, tcs) ==
    /\ heap = h
    /\ testCases = tcs
    /\ key = NoKey
    /\ test = NoTest
    /\ stack = <<>>
    /\ map = NewMap
    /\ result = NoResult
    /\ calls = 0
    /\ steps = 0
    /\ last = NoCall
    /\ first = NoFirst

\* runAll on two objects of any shape, and on primitives.
Init ==
    \/ \E h \in FlatHeaps(MaxSlots) : InitOn(h, RootTests)
    \/ InitOn(EmptyHeap, PrimTests)

\* runAll on linked structures.
InitLinked == \E h \in LinkedHeaps : InitOn(h, RootTests)

Next ==
    \/ \E tc \in testCases : RunTest(tc)
    \/ Descend
    \/ CompareLeaf
    \/ Return

Spec == Init /\ [][Next]_vars

SpecLinked == InitLinked /\ [][Next]_vars

(* ------------------------- notions of the claims ---------------------- *)

\* runTest has returned and no call is active.
Completed == stack = <<>> /\ result # NoResult

IsObject(x) == x.t = "ref"
IsMapping(x) == IsObject(x) /\ ~IsArray(x)
KeySet(x) == {OwnKeys(x)[i] : i \in 1..Len(OwnKeys(x))}

\* Structural equality: the same primitive, or objects of the same kind with
\* the same own keys and structurally equal values at every key; a pair of
\* objects met again on the way down is equal if nothing else tells them apart.
RECURSIVE StructEq(_, _, _)
StructEq(x, y, seen) ==
    IF ~IsObject(x) \/ ~IsObject(y) THEN x = y
    ELSE IF <<x, y>> \in seen THEN TRUE
    ELSE /\ IsArray(x) = IsArray(y)
         /\ KeySet(x) = KeySet(y)
         /\ \A k \in KeySet(x) : StructEq(Get(x, k), Get(y, k), seen \cup {<<x, y>>})

\* The value at the end of a key path from x, undefined off the structure.
RECURSIVE Nav(_, _)
Nav(x, p) ==
    IF p = <<>> THEN x
    ELSE IF ~IsObject(x) THEN UNDEF
    ELSE Nav(Get(x, Head(p)), Tail(p))

\* The key paths of at most d keys that lead from x along own keys.
RECURSIVE PathsFrom(_, _)
PathsFrom(x, d) ==
    IF d = 0 \/ ~IsObject(x) THEN {<<>>}
    ELSE {<<>>} \cup UNION {{<<k>> \o p : p \in PathsFrom(Get(x, k), d - 1)} : k \in KeySet(x)}

(* ------------------------------- claims ------------------------------- *)

\* C1: runTest returns the pass confirmation only if expected and actual are
\* structurally equal (same kind, same own keys, recursively equal values).
C1_PassOnlyIfEqual ==
    (Completed /\ result = Pass) => StructEq(test.expected, test.actual, {})

\* C2: a value compared with itself passes, whatever the value.
C2_Reflexive ==
    (Completed /\ test.expected = test.actual) => result = Pass

\* The first key, in the enumeration order of x, that x owns and y does not;
\* "" when there is none.
FirstAbsent(x, y) ==
    LET ks == OwnKeys(x)
        hits == {i \in 1..Len(ks) : ~HasOwn(y, ks[i])}
    IN IF hits = {} THEN "" ELSE ks[CHOOSE i \in hits : \A j \in hits : i <= j]

\* The last call was not answered by the identity check or the cycle guard
\* and compared two plain objects with different numbers of own keys.
KeyCountCase ==
    /\ last.how = "entered"
    /\ IsMapping(last.expected) /\ IsMapping(last.actual)
    /\ Len(OwnKeys(last.expected)) # Len(OwnKeys(last.actual))

\* C4: two plain objects with different numbers of own keys fail with
\* MissingKey (expected has more keys) or UnexpectedKey (actual has more),
\* naming with its full dotted path the first key that one side owns and the
\* other does not, also when the smaller side holds undefined at a key.
\* Stated for plain objects that own no key named "length", which C5 is about.
C4_KeySetDivergence ==
    (KeyCountCase /\ ~HasOwn(last.expected, "length") /\ ~HasOwn(last.actual, "length"))
    => /\ Completed
       /\ IF Len(OwnKeys(last.expected)) > Len(OwnKeys(last.actual))
          THEN /\ result.kind = "MissingKey"
               /\ result.path =
                    JoinKeys(Append(last.keyTrace, FirstAbsent(last.expected, last.actual)))
          ELSE /\ result.kind = "UnexpectedKey"
               /\ result.path =
                    JoinKeys(Append(last.keyTrace, FirstAbsent(last.actual, last.expected)))

\* C5: two arrays of different lengths fail with LengthMismatch reporting the
\* two lengths, and no comparison of two plain objects fails with
\* LengthMismatch.
C5_LengthMismatchOnlyForSequences ==
    /\ (/\ last.how = "entered"
        /\ IsArray(last.expected) /\ IsArray(last.actual)
        /\ Len(OwnKeys(last.expected)) # Len(OwnKeys(last.actual)))
       => /\ Completed
          /\ result = Msg("LengthMismatch", 63, "",
                          String(Num(Len(OwnKeys(last.expected)))),
                          String(Num(Len(OwnKeys(last.actual)))))
    /\ (Completed /\ result.kind = "LengthMismatch")
       => ~(IsMapping(last.expected) /\ IsMapping(last.actual))

\* C10: assertEquals(m, x, y) passes if and only if assertEquals(m, y, x)
\* passes.
C10_SymmetricOutcome ==
    (/\ Completed
     /\ first.set
     /\ first.test = TestCase(test.actual, test.expected))
    => ((result = Pass) <=> (first.out = Pass))

\* The number of own properties of all the objects together.
RECURSIVE SlotsFrom(_)
SlotsFrom(i) == IF i > NumObjs THEN 0 ELSE Len(heap[i].props) + SlotsFrom(i + 1)

\* C3: a comparison of cyclic structures ends with a result: no expected
\* object is entered twice, so the calls that pass the guard, the depth of
\* the recursion and the steps of the run are bounded by the size of the
\* heap, and the run never ends in a recursion overflow.
C3_CycleTermination ==
    /\ \A i, j \in 1..Len(stack) : i # j => stack[i].expected # stack[j].expected
    /\ Len(stack) <= NumObjs
    /\ calls = Len(map)
    /\ calls <= NumObjs + 1
    /\ steps <= SlotsFrom(1) + NumObjs
    /\ result.kind # "RangeError"
    /\ Completed => result.kind \in FailureKinds \cup {"Pass"}

\* C3 happens: a run over two cycles of two objects each ended with the pass
\* confirmation, the guard answering when the cycle closed.
C3_Witness ==
    /\ Completed /\ result = Pass
    /\ test.expected # test.actual
    /\ calls >= 2
    /\ last.how = "guard"
    /\ last.expected = test.expected

\* C7: the result of a test case does not depend on the test cases run
\* before it: it is the result the test case has when it is run first, and
\* the Map of the run holds nothing of an earlier run.
C7_CallIndependence ==
    /\ (Completed /\ first.set /\ test = first.test) => result = first.out
    /\ map = NewMap \/ map[1] = [k |-> test.expected, v |-> test.actual]
    /\ stack # <<>> => stack[1].keyTrace = <<>>

\* C7 happens: the test case run first was run again after another test case
\* had taken the key-count branch and left the global `key` set.
C7_Witness ==
    /\ Completed /\ first.set /\ test = first.test
    /\ first.test.expected # first.test.actual
    /\ first.out.kind \notin {"MissingKey", "UnexpectedKey"}
    /\ key # NoKey

\* The operands of the last call, as an entry of the Map.
LastPair == [k |-> last.expected, v |-> last.actual]

\* Exactly one operand of the last call is null.
OneNull == (last.expected = NULL) # (last.actual = NULL)

\* One operand of the last call is an array and the other a plain object.
ArrayAgainstObject ==
    /\ IsObject(last.expected) /\ IsObject(last.actual)
    /\ IsArray(last.expected) # IsArray(last.actual)

\* The name of a side: Null, Array for a sequence, Object otherwise.
SideName(x) ==
    IF x = NULL THEN "Null"
    ELSE IF IsObject(x) /\ heap[x.v].kind = "Array" THEN "Array"
    ELSE "Object"

\* The run ended in the last call with a ShapeMismatch naming both sides.
EndedInShapeMismatch ==
    /\ Completed
    /\ result.kind = "ShapeMismatch"
    /\ result.exp = SideName(last.expected)
    /\ result.act = SideName(last.actual)

\* C6 as claimed: a call with exactly one null operand, whatever the other, or
\* with an array against a plain object, fails with ShapeMismatch naming each
\* side as Array, Object or Null.
C6_ShapeMismatchAlways ==
    (last.how # "none" /\ (OneNull \/ ArrayAgainstObject)) => EndedInShapeMismatch

\* C6 as amended: a call that the identity check and the cycle guard do not
\* answer, with null against an array or a plain object, or with an array
\* against a plain object, fails with ShapeMismatch naming each side as
\* Array, Object or Null, having recorded the pair and visited no key; null
\* against a primitive fails with TypeMismatch.
C6_ShapeMismatch ==
    /\ (/\ last.how = "entered"
        /\ \/ OneNull /\ (IsObject(last.expected) \/ IsObject(last.actual))
           \/ ArrayAgainstObject)
       => /\ EndedInShapeMismatch
          /\ map = Append(last.before, LastPair)
    /\ (/\ last.how = "entered"
        /\ OneNull
        /\ ~IsObject(last.expected) /\ ~IsObject(last.actual))
       => (Completed /\ result.kind = "TypeMismatch")

\* C6 happens: a nested call compared null with an object and the run ended
\* with the ShapeMismatch naming Null.
C6_Witness ==
    /\ Completed /\ result.kind = "ShapeMismatch" /\ result.exp = "Null"
    /\ last.how = "entered"
    /\ last.expected = NULL /\ IsObject(last.actual)
    /\ Len(last.keyTrace) >= 1

\* C8 as claimed: a call that is not an identity hit returns success without
\* inspecting its operands if and only if the pair was entered before, or
\* the expected operand was entered before, or the actual operand was
\* entered before on either side.
C8_GuardEitherSide ==
    last.how # "none"
    => ((last.how = "guard")
        <=> /\ ~StrictEq(last.expected, last.actual)
            /\ \/ \E i \in 1..Len(last.before) : last.before[i] = LastPair
               \/ last.expected \in MapKeys(last.before)
               \/ last.actual \in MapKeys(last.before) \cup MapVals(last.before))

\* C8 as amended: a call that is not an identity hit returns success without
\* inspecting its operands if and only if its expected operand or its actual
\* operand was entered before as an expected operand; otherwise the pair is
\* recorded before any descent. The objects a = {a: a} and c = {a: c} compare
\* as equal.
C8_CycleGuard ==
    /\ last.how # "none"
       => /\ (last.how = "identity") <=> StrictEq(last.expected, last.actual)
          /\ (last.how = "guard")
             <=> /\ ~StrictEq(last.expected, last.actual)
                 /\ \/ last.expected \in MapKeys(last.before)
                    \/ last.actual \in MapKeys(last.before)
          /\ last.how \in {"identity", "guard"} => map = last.before
          /\ last.how = "entered" => map = Append(last.before, LastPair)
    /\ (/\ Completed
        /\ test = TestCase(Ref(1), Ref(2))
        /\ heap[1] = [kind |-> "Object", props |-> <<[k |-> "a", v |-> Ref(1)]>>]
        /\ heap[2] = [kind |-> "Object", props |-> <<[k |-> "a", v |-> Ref(2)]>>])
       => result = Pass

\* C8 happens: a = {a: a} was compared with c = {a: c}, the guard answered the
\* nested call and the run passed.
C8_Witness ==
    /\ Completed /\ result = Pass
    /\ test = TestCase(Ref(1), Ref(2))
    /\ heap[1] = [kind |-> "Object", props |-> <<[k |-> "a", v |-> Ref(1)]>>]
    /\ heap[2] = [kind |-> "Object", props |-> <<[k |-> "a", v |-> Ref(2)]>>]
    /\ last.how = "guard"
    /\ last.keyTrace = <<"a">>

\* The key paths of the operands of the test case.
TestPaths ==
    PathsFrom(test.expected, NumObjs + 1) \cup PathsFrom(test.actual, NumObjs + 1)

\* C9: the keyTrace of every active call is the sequence of keys descended
\* from the root, as long as the call is deep, and leads from the operands of
\* the test case to the operands of the call; the dotted path of a
\* ValueMismatch, MissingValue, MissingKey or UnexpectedKey is the path from
\* the root to the values it reports.
C9_KeyPath ==
    /\ \A i \in 1..Len(stack) :
          /\ Len(stack[i].keyTrace) = i - 1
          /\ i > 1 => stack[i].keyTrace =
                        Append(stack[i - 1].keyTrace,
                               OwnKeys(stack[i - 1].expected)[stack[i - 1].idx])
          /\ Nav(test.expected, stack[i].keyTrace) = stack[i].expected
          /\ Nav(test.actual, stack[i].keyTrace) = stack[i].actual
    /\ (/\ Completed
        /\ result.kind \in {"ValueMismatch", "MissingValue", "MissingKey", "UnexpectedKey"}
        /\ result.line # 50)
       => \E p \in TestPaths :
             /\ p # <<>>
             /\ JoinKeys(p) = result.path
             /\ result.kind = "ValueMismatch"
                => /\ String(Nav(test.expected, p)) = result.exp
                   /\ String(Nav(test.actual, p)) = result.act
                   /\ ~StrictEq(Nav(test.expected, p), Nav(test.actual, p))
             /\ result.kind = "MissingValue"
                => Nav(test.actual, p) = UNDEF /\ Nav(test.expected, p) # UNDEF
             /\ result.kind = "MissingKey"
                => /\ Nav(test.actual, p) = UNDEF
                   /\ HasOwn(Nav(test.expected, SubSeq(p, 1, Len(p) - 1)), p[Len(p)])
             /\ result.kind = "UnexpectedKey"
                => /\ Nav(test.expected, p) = UNDEF
                   /\ HasOwn(Nav(test.actual, SubSeq(p, 1, Len(p) - 1)), p[Len(p)])

\* C9 happens: a run ended two levels down with a ValueMismatch at a.a.
C9_Witness ==
    /\ Completed
    /\ result.kind = "ValueMismatch"
    /\ result.path = "a.a"

====
